---- MODULE Spec2Model ----
(***************************************************************************)
(* Model of src/lesson5/lesson5_7.py: the TranslationAgent class           *)
(* (translate_text, get_translation_history, clear_history) and the four   *)
(* Gradio handlers bound to it (perform_translation, clear_inputs,         *)
(* show_history, clear_history).                                           *)
(*                                                                         *)
(* Strings.  A Python str is a sequence of tokens.  A token is one         *)
(* character (" ", "a", ".") or one literal chunk of the source text of    *)
(* the program (a piece of the prompt template, a fixed message).  The     *)
(* literals of the program are Chinese; the tokens standing for them are   *)
(* ASCII glosses, each with the source line of the literal.  Texts typed   *)
(* by the user and texts answered by the model are sequences of single     *)
(* characters, so len(), slicing and strip() are exact on them.            *)
(***************************************************************************)
EXTENDS Integers, Sequences, FiniteSets, TLC

VARIABLES
    translation_history,  \* self.translation_history (line 17): list of records
    lastCall,             \* the most recent handler invocation and its arguments
    ret,                  \* the value that invocation returned
    invoked,              \* the prompts handed to self.model.invoke by that invocation
    pc,                   \* concurrent dispatch: where each worker thread is in translate_text
    frame,                \* concurrent dispatch: each worker thread's local variables
    held,                 \* concurrent dispatch: the list object a thread loaded for append
    appended              \* concurrent dispatch: appends performed since the last clear took effect

vars == <<translation_history, lastCall, ret, invoked, pc, frame, held, appended>>
seqVars == <<translation_history, lastCall, ret, invoked>>
concVars == <<pc, frame, held, appended>>

(***************************************************************************)
(* Bounds of the exploration and constants of the program.                 *)
(***************************************************************************)
MaxHistory == 2
MaxLongHistory == 11
MaxTruncHistory == 2
MaxConcHistory == 2
NThreads == 2

HistoryWindow == 10
SourceLimit == 100
TranslationLimit == 150

Min(a, b) == IF a < b THEN a ELSE b

(***************************************************************************)
(* str.strip(): leading and trailing whitespace removed.                   *)
(***************************************************************************)
Whitespace == {" ", "\t", "\n"}

RECURSIVE lstrip(_)
lstrip(s) ==
    IF s # <<>> /\ Head(s) \in Whitespace THEN lstrip(Tail(s)) ELSE s

RECURSIVE rstrip(_)
rstrip(s) ==
    IF s # <<>> /\ s[Len(s)] \in Whitespace
    THEN rstrip(SubSeq(s, 1, Len(s) - 1))
    ELSE s

strip(s) == rstrip(lstrip(s))

\* line 47: `not source_text.strip()` with the whitespace test left out
IsEmptyInput_NoStrip(source_text) == source_text = <<>>

\* line 47: `not source_text.strip()`
IsEmptyInput(source_text) == strip(source_text) = <<>>

(***************************************************************************)
(* The prompt template, lines 56-67.  The f-string substitutes the four    *)
(* selectors as they are given and leaves one placeholder, {text}.         *)
(***************************************************************************)
TextSlot == "{text}"
ForeignSlot == "{x}"
Placeholders == {TextSlot, ForeignSlot}

L56 == "\n"
L57a == "[You are a professional "
L57b == " translator, specialised in the field of "
L57c == ", skilled in translating in the style "
L57d == ".]\n"
L58a == "[Translate the following "
L58b == " text into "
L58c == " and make sure that:]\n"
L59a == "1. [the tone and style of the original are kept ("
L59b == ")]\n"
L60a == "2. [the terminology of the field "
L60b == " is used]\n"
L61a == "3. [the idiom of "
L61b == " is followed]\n"
L62 == "4. [the meaning of the original is kept complete]\n"
L63 == "5. [the translation reads naturally and fluently]\n"
L64 == "\n"
L65 == " [text]: "
L65end == "\n"
L66 == " [translation]: \n"

\* lines 56-67
complex_template(source_language, target_language, domain, tone_style) ==
    <<L56, L57a>> \o target_language \o <<L57b>> \o domain \o <<L57c>> \o tone_style
        \o <<L57d>>
    \o <<L58a>> \o source_language \o <<L58b>> \o target_language \o <<L58c>>
    \o <<L59a>> \o tone_style \o <<L59b>>
    \o <<L60a>> \o domain \o <<L60b>>
    \o <<L61a>> \o target_language \o <<L61b>>
    \o <<L62, L63, L64>>
    \o source_language \o <<L65, TextSlot, L65end>>
    \o target_language \o <<L66>>

(***************************************************************************)
(* ChatPromptTemplate.from_template(t).format(text=...), lines 69-70.      *)
(* from_template makes one human message of the template and takes every   *)
(* {name} in it as an input variable; format raises KeyError when a        *)
(* variable other than text is left without a value, and otherwise         *)
(* returns the messages as a string: the role and the substituted text.    *)
(***************************************************************************)
RolePrefix == "Human: "
KeyErrorText == "KeyError: missing variables {x}"

input_variables(template) ==
    {template[i] : i \in DOMAIN template} \cap Placeholders

RECURSIVE substitute(_, _)
substitute(template, text) ==
    IF template = <<>> THEN <<>>
    ELSE IF Head(template) = TextSlot
         THEN text \o substitute(Tail(template), text)
         ELSE <<Head(template)>> \o substitute(Tail(template), text)

\* lines 69-70 with the text stripped before it is embedded
format_stripped(template, text) ==
    IF input_variables(template) \subseteq {TextSlot}
    THEN [ok |-> TRUE, value |-> <<RolePrefix>> \o substitute(template, strip(text))]
    ELSE [ok |-> FALSE, value |-> <<KeyErrorText>>]

\* lines 69-70
format(template, text) ==
    IF input_variables(template) \subseteq {TextSlot}
    THEN [ok |-> TRUE, value |-> <<RolePrefix>> \o substitute(template, text)]
    ELSE [ok |-> FALSE, value |-> <<KeyErrorText>>]

(***************************************************************************)
(* The model collaborator, line 73: it answers a str, answers some other   *)
(* object, or raises.  str() of an object is modelled on integers.         *)
(***************************************************************************)
Digit(d) ==
    CASE d = 0 -> "0" [] d = 1 -> "1" [] d = 2 -> "2" [] d = 3 -> "3" [] d = 4 -> "4"
      [] d = 5 -> "5" [] d = 6 -> "6" [] d = 7 -> "7" [] d = 8 -> "8" [] d = 9 -> "9"

RECURSIVE str(_)
str(n) == IF n < 10 THEN <<Digit(n)>> ELSE str(n \div 10) \o <<Digit(n % 10)>>

\* line 74
coerce(response) ==
    IF response.kind = "str" THEN response.value ELSE str(response.object)

StrReply(s) == [kind |-> "str", value |-> s, object |-> 0]
ObjReply(n) == [kind |-> "obj", value |-> <<>>, object |-> n]
Raise(description) == [kind |-> "raise", value |-> description, object |-> 0]
NoReply == [kind |-> "none", value |-> <<>>, object |-> 0]

(***************************************************************************)
(* translate_text, lines 44-99.                                            *)
(***************************************************************************)
PleaseEnterText == "[Please enter the text to translate]"
ErrorPrefix == "[An error occurred during translation]: "

\* lines 77-85 with source and target language exchanged
translation_record_swapped(source_text, source_language, target_language, domain, tone_style, translation_result, formatted_prompt) ==
    [source_text |-> source_text,
     source_language |-> target_language,
     target_language |-> source_language,
     domain |-> domain,
     tone_style |-> tone_style,
     translation |-> translation_result,
     prompt |-> formatted_prompt]

\* lines 77-85
translation_record(source_text, source_language, target_language, domain, tone_style, translation_result, formatted_prompt) ==
    [source_text |-> source_text,
     source_language |-> source_language,
     target_language |-> target_language,
     domain |-> domain,
     tone_style |-> tone_style,
     translation |-> translation_result,
     prompt |-> formatted_prompt]

\* line 86 as an insertion at the front
list_append_front(list, record) == <<record>> \o list

\* line 86: list.append
list_append(list, record) == Append(list, record)

\* lines 48-52
empty_input_result ==
    [translation |-> <<PleaseEnterText>>, prompt |-> <<>>, status |-> "error"]

\* lines 95-99 with the description of the failure left out
error_result_silent(e) ==
    [translation |-> <<ErrorPrefix>>, prompt |-> <<>>, status |-> "error"]

\* lines 95-99
error_result(e) ==
    [translation |-> <<ErrorPrefix>> \o e, prompt |-> <<>>, status |-> "error"]

\* lines 94-99 as a handler that records the failed attempt too
history_on_error_recorded(history, source_text, source_language, target_language, domain, tone_style, e) ==
    list_append(history,
        translation_record(source_text, source_language, target_language, domain,
                           tone_style, <<ErrorPrefix>> \o e, <<>>))

\* lines 94-99: the except branch leaves the history alone
history_on_error(history, source_text, source_language, target_language, domain, tone_style, e) == history

\* lines 88-92
success_result(translation_result, formatted_prompt) ==
    [translation |-> translation_result, prompt |-> formatted_prompt,
     status |-> "success"]

Call(op, source_text, source_language, target_language, domain, tone_style, reply) ==
    [op |-> op, source_text |-> source_text, source_language |-> source_language,
     target_language |-> target_language, domain |-> domain,
     tone_style |-> tone_style, reply |-> reply]

NoArgCall(op) == Call(op, <<>>, <<>>, <<>>, <<>>, <<>>, NoReply)

\* perform_translation (lines 337-342) calling translate_text (lines 44-99);
\* reply is what self.model.invoke does if it is reached
translate_text(source_text, source_language, target_language, domain, tone_style, reply) ==
    /\ lastCall' = Call("translate_text", source_text, source_language,
                        target_language, domain, tone_style, reply)
    /\ IF IsEmptyInput(source_text)
       THEN /\ ret' = empty_input_result
            /\ invoked' = <<>>
            /\ UNCHANGED translation_history
       ELSE LET rendered ==
                    format(complex_template(source_language, target_language,
                                            domain, tone_style), source_text)
            IN  IF ~rendered.ok
                THEN /\ ret' = error_result(rendered.value)
                     /\ invoked' = <<>>
                     /\ translation_history' =
                            history_on_error(translation_history, source_text,
                                source_language, target_language, domain,
                                tone_style, rendered.value)
                ELSE /\ invoked' = <<rendered.value>>
                     /\ IF reply.kind = "raise"
                        THEN /\ ret' = error_result(reply.value)
                             /\ translation_history' =
                                    history_on_error(translation_history,
                                        source_text, source_language,
                                        target_language, domain, tone_style,
                                        reply.value)
                        ELSE /\ translation_history' =
                                    list_append(translation_history,
                                        translation_record(source_text,
                                            source_language, target_language,
                                            domain, tone_style, coerce(reply),
                                            rendered.value))
                             /\ ret' = success_result(coerce(reply), rendered.value)
    /\ UNCHANGED concVars

(***************************************************************************)
(* get_translation_history, lines 101-113.  The markdown it returns is     *)
(* kept in parts: the first line (the sentinel, or the title) and one      *)
(* entry per record shown, with the values the f-strings put in it.        *)
(***************************************************************************)
NoRecordsText == "[No translation records yet]"
HistoryTitle == "# [Translation history]\n\n"
Ellipsis == <<".", ".", ".">>

\* lines 110-111 with >= in the length test
shown_at_limit(s, limit) ==
    SubSeq(s, 1, Min(limit, Len(s))) \o (IF Len(s) >= limit THEN Ellipsis ELSE <<>>)

\* lines 110-111: s[:limit] + ('...' if len(s) > limit else '')
shown(s, limit) ==
    SubSeq(s, 1, Min(limit, Len(s))) \o (IF Len(s) > limit THEN Ellipsis ELSE <<>>)

\* line 107 slicing the oldest records instead of the newest
recent_oldest(history) == SubSeq(history, 1, Min(HistoryWindow, Len(history)))

\* line 107: self.translation_history[-10:]
recent(history) ==
    SubSeq(history, Len(history) - Min(HistoryWindow, Len(history)) + 1, Len(history))

\* lines 108-111
history_entry(i, record) ==
    [index |-> i,
     source_language |-> record.source_language,
     target_language |-> record.target_language,
     domain |-> record.domain,
     tone_style |-> record.tone_style,
     source_text |-> shown(record.source_text, SourceLimit),
     translation |-> shown(record.translation, TranslationLimit)]

\* lines 101-113
get_translation_history(history) ==
    IF history = <<>>
    THEN [head |-> <<NoRecordsText>>, entries |-> <<>>]
    ELSE [head |-> <<HistoryTitle>>,
          entries |-> [i \in 1..Len(recent(history)) |->
                          history_entry(i, recent(history)[i])]]

\* show_history, lines 348-350
show_history ==
    /\ lastCall' = NoArgCall("show_history")
    /\ ret' = get_translation_history(translation_history)
    /\ invoked' = <<>>
    /\ UNCHANGED translation_history
    /\ UNCHANGED concVars

(***************************************************************************)
(* clear_history, lines 115-118, behind the handler of lines 352-355.      *)
(***************************************************************************)
ClearedText == "[Translation history cleared]"
NothingToClearText == "[Nothing to clear]"

\* lines 115-118 and 352-355 answering differently when the log is empty
clear_history_guarded ==
    /\ lastCall' = NoArgCall("clear_history")
    /\ translation_history' = <<>>
    /\ ret' = IF translation_history = <<>> THEN <<NothingToClearText>>
              ELSE <<ClearedText>>
    /\ invoked' = <<>>
    /\ UNCHANGED concVars

\* lines 115-118 and 352-355
clear_history ==
    /\ lastCall' = NoArgCall("clear_history")
    /\ translation_history' = <<>>
    /\ ret' = <<ClearedText>>
    /\ invoked' = <<>>
    /\ UNCHANGED concVars

\* clear_inputs, lines 344-346
clear_inputs ==
    /\ lastCall' = NoArgCall("clear_inputs")
    /\ ret' = << <<>>, <<>>, <<>> >>
    /\ invoked' = <<>>
    /\ UNCHANGED translation_history
    /\ UNCHANGED concVars

(***************************************************************************)
(* The state after construction, lines 15-17 and 121.                      *)
(***************************************************************************)
Threads == 1..NThreads
NoFrame == [record |-> <<>>]

Init ==
    /\ translation_history = <<>>
    /\ lastCall = NoArgCall("init")
    /\ ret = <<>>
    /\ invoked = <<>>
    /\ pc = [t \in Threads |-> "idle"]
    /\ frame = [t \in Threads |-> NoFrame]
    /\ held = [t \in Threads |-> "none"]
    /\ appended = <<>>

(***************************************************************************)
(* Inputs.                                                                 *)
(***************************************************************************)
Fill(n) == [i \in 1..n |-> IF i % 2 = 1 THEN "a" ELSE "b"]

Selection(source_language, target_language, domain, tone_style) ==
    [source_language |-> <<source_language>>, target_language |-> <<target_language>>,
     domain |-> <<domain>>, tone_style |-> <<tone_style>>]

\* the defaults of the four dropdowns (lines 254, 260, 268, 274), in ASCII
DefaultSelection == Selection("English", "zh-Hant", "general", "professional")
OtherSelection == Selection("ja", "English", "legal", "formal")
\* a domain that is itself a template placeholder: rendering raises
BraceSelection == Selection("English", "zh-Hant", ForeignSlot, "professional")

Texts == {<<>>, <<" ", "\n">>, <<"H", "i">>, <<" ", "H", "i", "\n">>}
Selections == {DefaultSelection, OtherSelection, BraceSelection}
Replies ==
    {StrReply(<<"y", "o">>), ObjReply(42), Raise(<<"ConnectionError: refused">>)}

Next ==
    \/ \E text \in Texts, sel \in Selections, reply \in Replies :
          /\ translate_text(text, sel.source_language, sel.target_language,
                            sel.domain, sel.tone_style, reply)
          /\ Len(translation_history') <= MaxHistory
    \/ show_history
    \/ clear_history
    \/ clear_inputs

Spec == Init /\ [][Next]_vars

(***************************************************************************)
(* A long log of short records: the window of get_translation_history.     *)
(***************************************************************************)
LongTexts == {<<"H", "i">>}
LongReplies == {StrReply(<<"y", "o">>), ObjReply(42)}

NextLong ==
    \/ \E text \in LongTexts, reply \in LongReplies :
          /\ translate_text(text, DefaultSelection.source_language,
                            DefaultSelection.target_language,
                            DefaultSelection.domain, DefaultSelection.tone_style,
                            reply)
          /\ Len(translation_history') <= MaxLongHistory
    \/ show_history
    \/ clear_history
    \/ clear_inputs

SpecLong == Init /\ [][NextLong]_vars

(***************************************************************************)
(* A short log of long records: the truncation of get_translation_history. *)
(***************************************************************************)
TruncTexts == {<<"H", "i">>, Fill(SourceLimit), Fill(SourceLimit + 1)}
TruncReplies ==
    {StrReply(<<"y", "o">>), StrReply(Fill(TranslationLimit)),
     StrReply(Fill(TranslationLimit + 1))}

NextTrunc ==
    \/ \E text \in TruncTexts, reply \in TruncReplies :
          /\ translate_text(text, DefaultSelection.source_language,
                            DefaultSelection.target_language,
                            DefaultSelection.domain, DefaultSelection.tone_style,
                            reply)
          /\ Len(translation_history') <= MaxTruncHistory
    \/ show_history
    \/ clear_history
    \/ clear_inputs

SpecTrunc == Init /\ [][NextTrunc]_vars

(***************************************************************************)
(* Concurrent dispatch.  Gradio runs each handler on a worker thread, and  *)
(* the module-level translation_agent (line 121) is shared by all of them. *)
(* translate_text takes no lock: a thread is modelled at the points where  *)
(* another thread can run in between, which are the model call (line 73)   *)
(* and, in line 86, the load of self.translation_history and the call of   *)
(* append on the list object that was loaded.  clear_history (line 117)    *)
(* binds the attribute to a new list: lists loaded before it are no longer *)
(* the log ("orphan").                                                     *)
(***************************************************************************)
ConcTexts == {<<"H", "i">>, <<"O", "k">>}
ConcReplies == {StrReply(<<"y", "o">>), Raise(<<"ConnectionError: refused">>)}

\* lines 44-72: validation and rendering, up to the model call
conc_begin(t, source_text, source_language, target_language, domain, tone_style) ==
    /\ pc[t] = "idle"
    /\ LET rendered ==
               format(complex_template(source_language, target_language, domain,
                                       tone_style), source_text)
       IN  IF IsEmptyInput(source_text) \/ ~rendered.ok
           THEN UNCHANGED <<pc, frame>>
           ELSE /\ pc' = [pc EXCEPT ![t] = "invoke"]
                /\ frame' = [frame EXCEPT ![t] =
                       [record |-> translation_record(source_text, source_language,
                                       target_language, domain, tone_style, <<>>,
                                       rendered.value)]]
    /\ UNCHANGED <<held, appended, seqVars>>

\* lines 73-85 and 94-99: the model answers or raises; the record is built
conc_model_returns(t, reply) ==
    /\ pc[t] = "invoke"
    /\ IF reply.kind = "raise"
       THEN /\ pc' = [pc EXCEPT ![t] = "idle"]
            /\ frame' = [frame EXCEPT ![t] = NoFrame]
       ELSE /\ pc' = [pc EXCEPT ![t] = "built"]
            /\ frame' = [frame EXCEPT ![t] =
                   [record |-> [frame[t].record EXCEPT !.translation = coerce(reply)]]]
    /\ UNCHANGED <<held, appended, seqVars>>

\* line 86, first half: self.translation_history is evaluated
conc_load_history(t) ==
    /\ pc[t] = "built"
    /\ pc' = [pc EXCEPT ![t] = "loaded"]
    /\ held' = [held EXCEPT ![t] = "current"]
    /\ UNCHANGED <<frame, appended, seqVars>>

\* line 86, second half, and lines 88-92: append on the loaded list, return
conc_append(t) ==
    /\ pc[t] = "loaded"
    /\ translation_history' =
           IF held[t] = "current"
           THEN list_append(translation_history, frame[t].record)
           ELSE translation_history
    /\ appended' = Append(appended, frame[t].record)
    /\ pc' = [pc EXCEPT ![t] = "idle"]
    /\ frame' = [frame EXCEPT ![t] = NoFrame]
    /\ held' = [held EXCEPT ![t] = "none"]
    /\ UNCHANGED <<lastCall, ret, invoked>>

\* lines 115-118 run by another thread
conc_clear_history ==
    /\ translation_history' = <<>>
    /\ held' = [t \in Threads |-> IF held[t] = "current" THEN "orphan" ELSE held[t]]
    /\ appended' = <<>>
    /\ UNCHANGED <<pc, frame, lastCall, ret, invoked>>

NextConc ==
    \/ \E t \in Threads, text \in ConcTexts :
          conc_begin(t, text, DefaultSelection.source_language,
                     DefaultSelection.target_language, DefaultSelection.domain,
                     DefaultSelection.tone_style)
    \/ \E t \in Threads, reply \in ConcReplies : conc_model_returns(t, reply)
    \/ \E t \in Threads : conc_load_history(t)
    \/ \E t \in Threads : conc_append(t) /\ Len(appended') <= MaxConcHistory
    \/ conc_clear_history

SpecConc == Init /\ [][NextConc]_vars

(***************************************************************************)
(* Properties.  The notions they use are stated here on their own, not     *)
(* through the operators of the model above.                               *)
(***************************************************************************)
AllWhitespace(s) == \A i \in DOMAIN s : s[i] \in Whitespace

Contains(s, sub) ==
    \E i \in 0..(Len(s) - Len(sub)) : SubSeq(s, i + 1, i + Len(sub)) = sub

Selectors(call) ==
    <<call.source_language, call.target_language, call.domain, call.tone_style>>

\* rendering raises: a selector is itself a placeholder of the template
RenderRaises(call) ==
    \E k \in 1..4 : \E i \in DOMAIN Selectors(call)[k] :
        Selectors(call)[k][i] = ForeignSlot

Submitted(call) == call.op = "translate_text"
Attempted(call) == Submitted(call) /\ ~AllWhitespace(call.source_text)
Failed(call) == Attempted(call) /\ (RenderRaises(call) \/ call.reply.kind = "raise")
Answered(call) == Attempted(call) /\ ~RenderRaises(call) /\ call.reply.kind # "raise"

FailureDescription(call) ==
    IF RenderRaises(call) THEN <<KeyErrorText>> ELSE call.reply.value

GrewByOne(old, new) ==
    /\ Len(new) = Len(old) + 1
    /\ SubSeq(new, 1, Len(old)) = old

\* C1: a submit whose text is empty or only whitespace does not invoke the
\* model, returns status "error" with an empty prompt, and leaves the history
\* log as it was.
C1_BlankSubmitRejected ==
    [][(Submitted(lastCall') /\ AllWhitespace(lastCall'.source_text))
         => /\ invoked' = <<>>
            /\ ret'.status = "error"
            /\ ret'.prompt = <<>>
            /\ translation_history' = translation_history]_vars

C1_Witness ==
    /\ Submitted(lastCall)
    /\ lastCall.source_text # <<>>
    /\ AllWhitespace(lastCall.source_text)
    /\ translation_history # <<>>
    /\ ret.status = "error"

\* C2: a submit with non-blank text whose rendering or model invocation raises
\* returns status "error" with prompt "" and a message containing the failure
\* description, appends no record, and invokes the model at most once.
C2_FailureReported ==
    [][Failed(lastCall')
         => /\ ret'.status = "error"
            /\ ret'.prompt = <<>>
            /\ Contains(ret'.translation, FailureDescription(lastCall'))
            /\ translation_history' = translation_history
            /\ Len(invoked') <= 1]_vars

C2_Witness ==
    /\ Failed(lastCall)
    /\ lastCall.reply.kind = "raise"
    /\ ~RenderRaises(lastCall)
    /\ Len(invoked) = 1
    /\ translation_history # <<>>
    /\ ret.status = "error"

\* C3: a submit with non-blank text that the model answers appends exactly one
\* record at the end of the log, earlier entries unchanged; the record's five
\* descriptive fields equal the call's inputs; the call returns "success" with
\* the translation and the prompt stored in that record.
C3_SuccessRecorded ==
    [][Answered(lastCall')
         => /\ GrewByOne(translation_history, translation_history')
            /\ LET new == translation_history'[Len(translation_history')]
               IN  /\ new.source_text = lastCall'.source_text
                   /\ new.source_language = lastCall'.source_language
                   /\ new.target_language = lastCall'.target_language
                   /\ new.domain = lastCall'.domain
                   /\ new.tone_style = lastCall'.tone_style
                   /\ ret'.status = "success"
                   /\ ret'.translation = new.translation
                   /\ ret'.prompt = new.prompt]_vars

C3_Witness ==
    /\ Answered(lastCall)
    /\ Len(translation_history) = 2
    /\ translation_history[1] # translation_history[2]
    /\ ret.status = "success"
    /\ ret.prompt = translation_history[2].prompt

\* C4 as stated: every submit that makes an attempt creates a record, whether
\* the model invocation succeeds or fails.
C4_EveryAttemptRecorded ==
    [][Attempted(lastCall')
         => Len(translation_history') = Len(translation_history) + 1]_vars

\* C4 as amended: a submit creates a record exactly when the attempt is
\* answered by the model, which is exactly when it returns status "success";
\* an attempt that fails leaves the log as it was.
C4_AnsweredAttemptsRecorded ==
    [][Submitted(lastCall')
         => /\ GrewByOne(translation_history, translation_history')
                  <=> Answered(lastCall')
            /\ Answered(lastCall') <=> ret'.status = "success"
            /\ ~Answered(lastCall') => translation_history' = translation_history]_vars

C4_Witness ==
    /\ Failed(lastCall)
    /\ Len(invoked) = 1
    /\ Len(translation_history) = 1
    /\ ret.status = "error"

\* C5: getHistory returns the "no records" sentinel exactly when the log is
\* empty; otherwise it shows min(N, 10) entries, which are the last records of
\* the log in insertion order, numbered from 1; the log is left unchanged.
C5_HistoryWindow ==
    [][lastCall'.op = "show_history"
         => LET N == Len(translation_history)
                K == Min(N, HistoryWindow)
            IN  /\ translation_history' = translation_history
                /\ (ret'.head = <<NoRecordsText>>) <=> (N = 0)
                /\ Len(ret'.entries) = K
                /\ \A i \in 1..K :
                      LET e == ret'.entries[i]
                          r == translation_history[N - K + i]
                      IN  /\ e.index = i
                          /\ e.source_language = r.source_language
                          /\ e.target_language = r.target_language
                          /\ e.domain = r.domain
                          /\ e.tone_style = r.tone_style
                          /\ Len(r.source_text) <= SourceLimit
                                => e.source_text = r.source_text
                          /\ Len(r.translation) <= TranslationLimit
                                => e.translation = r.translation]_vars

C5_Witness ==
    /\ lastCall.op = "show_history"
    /\ Len(translation_history) = HistoryWindow + 1
    /\ translation_history[1] # translation_history[HistoryWindow + 1]
    /\ Len(ret.entries) = HistoryWindow

ShownWithin(text, limit, display) ==
    IF Len(text) <= limit
    THEN display = text
    ELSE /\ Len(display) = limit + 3
         /\ SubSeq(display, 1, limit) = SubSeq(text, 1, limit)
         /\ SubSeq(display, limit + 1, limit + 3) = Ellipsis

\* C6: in the getHistory view the source text is shown as its first 100
\* characters, followed by an ellipsis exactly when it is longer than 100; the
\* output text likewise with 150; text within the limit is shown in full
\* without ellipsis; the stored record is not shortened.
C6_ViewTruncation ==
    [][lastCall'.op = "show_history"
         => LET N == Len(translation_history)
                K == Min(N, HistoryWindow)
            IN  /\ translation_history' = translation_history
                /\ Len(ret'.entries) = K
                /\ \A i \in 1..K :
                      /\ ShownWithin(translation_history[N - K + i].source_text,
                                     SourceLimit, ret'.entries[i].source_text)
                      /\ ShownWithin(translation_history[N - K + i].translation,
                                     TranslationLimit,
                                     ret'.entries[i].translation)]_vars

C6_Witness ==
    /\ lastCall.op = "show_history"
    /\ Len(translation_history) = 2
    /\ Len(translation_history[1].source_text) = SourceLimit + 1
    /\ Len(translation_history[1].translation) = TranslationLimit
    /\ Len(translation_history[2].source_text) = SourceLimit
    /\ Len(translation_history[2].translation) = TranslationLimit + 1
    /\ Len(ret.entries[1].source_text) = SourceLimit + 3
    /\ Len(ret.entries[2].translation) = TranslationLimit + 3

\* C7: clearHistory empties the log from any prior size and returns its
\* confirmation, whatever the log held (so clearing an empty or a just cleared
\* log gives the same empty log and the same confirmation); a getHistory made
\* right after it returns the empty-state sentinel.
C7_ClearHistory ==
    [][/\ lastCall'.op = "clear_history"
             => /\ translation_history' = <<>>
                /\ ret' = <<ClearedText>>
       /\ (lastCall.op = "clear_history" /\ lastCall'.op = "show_history")
             => /\ ret'.head = <<NoRecordsText>>
                /\ ret'.entries = <<>>]_vars

C7_Witness ==
    /\ lastCall.op = "clear_history"
    /\ ret = <<ClearedText>>
    /\ translation_history = <<>>

\* C8: each step leaves the log unchanged, or extends it by exactly one record
\* at the end with the previous log as prefix (a submit), or empties it (only
\* clearHistory); no record is edited, reordered or removed on its own.
C8_AppendOnly ==
    [][\/ translation_history' = translation_history
       \/ /\ GrewByOne(translation_history, translation_history')
          /\ lastCall'.op = "translate_text"
       \/ /\ translation_history' = <<>>
          /\ lastCall'.op = "clear_history"]_vars

C8_Witness ==
    /\ lastCall.op = "clear_inputs"
    /\ Len(translation_history) = 2
    /\ translation_history[1] # translation_history[2]

\* C9: under concurrent dispatch the log append is synchronized: the log holds
\* exactly the records appended since the last clearHistory took effect, once
\* each, in the order in which the appends took place.
C9_AppendsSynchronized == translation_history = appended

SlotHolds(prompt, call, text) ==
    Contains(prompt, call.source_language \o <<L65>> \o text \o <<L65end>>
                     \o call.target_language \o <<L66>>)

\* C10 as stated: the instruction passed to the model, and stored as the
\* record's prompt, is the template with the four selectors substituted and
\* the source text, trimmed of surrounding whitespace, in the text slot.

C10_TrimmedTextEmbedded ==
    (Attempted(lastCall) /\ invoked # <<>>)
        => SlotHolds(invoked[1], lastCall, strip(lastCall.source_text))

\* C10 as amended: the instruction passed to the model, and stored as the
\* record's prompt, holds the template with the four selectors substituted and
\* the source text as submitted, surrounding whitespace included, in the text
\* slot; it contains each selector value and the trimmed text as substrings.
C10_SubmittedTextEmbedded ==
    (Attempted(lastCall) /\ invoked # <<>>)
        => /\ SlotHolds(invoked[1], lastCall, lastCall.source_text)
           /\ Contains(invoked[1],
                  <<L57a>> \o lastCall.target_language \o <<L57b>> \o lastCall.domain
                  \o <<L57c>> \o lastCall.tone_style \o <<L57d, L58a>>
                  \o lastCall.source_language \o <<L58b>> \o lastCall.target_language
                  \o <<L58c, L59a>> \o lastCall.tone_style \o <<L59b, L60a>>
                  \o lastCall.domain \o <<L60b, L61a>> \o lastCall.target_language
                  \o <<L61b, L62, L63>>)
           /\ \A k \in 1..4 : Contains(invoked[1], Selectors(lastCall)[k])
           /\ Contains(invoked[1], strip(lastCall.source_text))
           /\ Answered(lastCall)
                 => translation_history[Len(translation_history)].prompt = invoked[1]

C10_Witness ==
    /\ Answered(lastCall)
    /\ lastCall.source_text # strip(lastCall.source_text)
    /\ invoked # <<>>
    /\ translation_history # <<>>
    /\ translation_history[Len(translation_history)].prompt = invoked[1]

====
